---- MODULE Spec2Model ----
(***************************************************************************)
(* Model of js/stripPlots.js: the spreadsheet-to-plot pipeline             *)
(* (readInterpretOutputXLSX, cleanData, getPointsData, makeStripPlot) and  *)
(* the sort / ionization-mode buttons of stripPlotsMain.                   *)
(*                                                                         *)
(* Strings the code inspects (column names, chemical names) are sequences  *)
(* of tokens, so that startsWith, includes, split and concatenation are    *)
(* computed and not assumed.  A JavaScript object is the sequence of its   *)
(* [k, v] entries in property order.  A JavaScript value is a record       *)
(* [t, n, s]: t is its kind, n its number, s its string.                   *)
(***************************************************************************)
EXTENDS Integers, Sequences, FiniteSets, TLC

VARIABLES
    pc,          \* where stripPlotsMain is: fetching, fetchFailed, loaded,
                 \* cleanFailed, renderFailed, done
    jsonData,    \* the rows as readInterpretOutputXLSX returned them
    cleaned,     \* the rows as cleanData returned them
    data,        \* the array `data` of stripPlotsMain, sorted in place
    sortedBy,    \* var sortedBy
    showMode,    \* let showMode
    dom,         \* the elements stripPlotsMain has appended to the page
    pointsData,  \* the points bound to the circles of the current svg
    lastRender,  \* how the last makeStripPlot ended: none, ok, threw
    sortClicks,  \* clicks on the sort button so far: none, odd, even
    modeClicked  \* the id of the mode button clicked last: none, pos, neg

vars == <<pc, jsonData, cleaned, data, sortedBy, showMode, dom, pointsData,
          lastRender, sortClicks, modeClicked>>

-----------------------------------------------------------------------------
(* JavaScript values *)

Num(n) == [t |-> "num", n |-> n, s |-> <<>>]
Str(s) == [t |-> "str", n |-> 0, s |-> s]
NaN == [t |-> "nan", n |-> 0, s |-> <<>>]
NegInfinity == [t |-> "-inf", n |-> 0, s |-> <<>>]
Undefined == [t |-> "undefined", n |-> 0, s |-> <<>>]

\* `${v}` for the values the inputs give a name or a mode: a string or undefined
TemplateString(v) == IF v.t = "undefined" THEN <<"undefined">> ELSE v.s

StartsWith(s, p) == Len(s) >= Len(p) /\ SubSeq(s, 1, Len(p)) = p

Includes(s, p) == \E i \in 1..(Len(s) - Len(p) + 1) : SubSeq(s, i, i + Len(p) - 1) = p

EndsWith(s, p) == Len(s) >= Len(p) /\ SubSeq(s, Len(s) - Len(p) + 1, Len(s)) = p

-----------------------------------------------------------------------------
(* JavaScript objects: property read, write and delete *)

HasKey(row, k) == \E i \in DOMAIN row : row[i].k = k

Get(row, k) ==
    IF HasKey(row, k)
    THEN row[CHOOSE i \in DOMAIN row : row[i].k = k].v
    ELSE Undefined

Set(row, k, v) ==
    IF HasKey(row, k)
    THEN [i \in DOMAIN row |-> IF row[i].k = k THEN [k |-> k, v |-> v] ELSE row[i]]
    ELSE Append(row, [k |-> k, v |-> v])

Delete(row, k) == SelectSeq(row, LAMBDA c : c.k # k)

-----------------------------------------------------------------------------
(* Column names *)

FeatureID == <<"Feature ID">>
ChemicalName == <<"Chemical Name">>
IonizationMode == <<"Ionization Mode">>
RetentionTime == <<"Retention Time">>
MedianLogRF == <<"Median Log RF">>
RFPrefix == <<"RF ">>
LogRFPrefix == <<"log ", "RF ">>

columnsToKeep == {FeatureID, ChemicalName, IonizationMode, RetentionTime}

-----------------------------------------------------------------------------
(* Math.log.  Numeric cells are powers of two and a logarithm is counted   *)
(* in units of ln(2)/2, so that the mean of two logarithms is an integer.  *)

RECURSIVE Ln(_)
Ln(n) == IF n <= 1 THEN 0 ELSE 2 + Ln(n \div 2)

\* mutant of MathLog: the logarithm of zero taken to be a number
MathLogOfZero(value) ==
    IF value.t = "num"
    THEN IF value.n >= 0 THEN Num(Ln(value.n)) ELSE NaN
    ELSE NaN

MathLog(value) ==
    IF value.t = "num"
    THEN IF value.n > 0 THEN Num(Ln(value.n))
         ELSE IF value.n = 0 THEN NegInfinity ELSE NaN
    ELSE NaN

-----------------------------------------------------------------------------
(* d3.median (d3-array 3: numbers, quantile)                               *)

IsNumber(v) == v.t \in {"num", "-inf"}

NumLess(a, b) ==
    IF a.t = "-inf" THEN b.t = "num"
    ELSE b.t = "num" /\ a.n < b.n

RECURSIVE Ascending(_)
Ascending(s) ==
    IF s = <<>> THEN <<>>
    ELSE LET rest == Ascending(Tail(s))
             x == Head(s)
         IN SelectSeq(rest, LAMBDA y : NumLess(y, x)) \o <<x>> \o
            SelectSeq(rest, LAMBDA y : ~NumLess(y, x))

D3Median(values) ==
    LET nums == Ascending(SelectSeq(values, IsNumber))
        n == Len(nums)
        i0 == (n - 1) \div 2
        value0 == nums[i0 + 1]
        value1 == nums[i0 + 2]
    IN IF n = 0 THEN Undefined
       ELSE IF n < 2 THEN nums[1]
       ELSE IF value0.t = "-inf" THEN NaN
       ELSE IF (n - 1) % 2 = 0 THEN value0
       ELSE Num(value0.n + (value1.n - value0.n) \div 2)

-----------------------------------------------------------------------------
(* cleanData                                                               *)

\* the chemical-identity string cleanData writes into "Chemical Name"
ChemicalKey(name, mode) ==
    TemplateString(name) \o <<" ", "(">> \o TemplateString(mode) \o <<")">>

\* logRFValues[key].push(value), after creating the list if it is missing
PushLog(logRFValues, key, value) ==
    IF key \in DOMAIN logRFValues
    THEN [logRFValues EXCEPT ![key] = Append(@, value)]
    ELSE (key :> <<value>>) @@ logRFValues

\* the body of the inner forEach, for one entry of Object.entries(row);
\* st is [row, logRFValues]
CleanEntry(st, colName, value) ==
    IF ~StartsWith(colName, RFPrefix) /\ colName \notin columnsToKeep
    THEN [row |-> Delete(st.row, colName), logRFValues |-> st.logRFValues]
    ELSE LET named == IF colName = ChemicalName
                      THEN Set(st.row, colName,
                               Str(ChemicalKey(Get(st.row, colName),
                                               Get(st.row, IonizationMode))))
                      ELSE st.row
             logColName == <<"log ">> \o colName
             logged == Delete(Set(named, logColName, MathLog(value)), colName)
         IN IF StartsWith(colName, RFPrefix)
            THEN [row |-> logged,
                  logRFValues |-> PushLog(st.logRFValues,
                                          TemplateString(Get(logged, ChemicalName)),
                                          Get(logged, logColName))]
            ELSE [row |-> named, logRFValues |-> st.logRFValues]

\* the inner forEach over the entries the row had when the loop started
RECURSIVE CleanEntries(_, _)
CleanEntries(st, entries) ==
    IF entries = <<>> THEN st
    ELSE CleanEntries(CleanEntry(st, Head(entries).k, Head(entries).v), Tail(entries))

\* the first data.forEach; st is [rows, logRFValues]
RECURSIVE FirstPass(_, _)
FirstPass(st, rows) ==
    IF rows = <<>> THEN st
    ELSE LET r == CleanEntries([row |-> Head(rows), logRFValues |-> st.logRFValues],
                               Head(rows))
         IN FirstPass([rows |-> Append(st.rows, r.row), logRFValues |-> r.logRFValues],
                      Tail(rows))

\* the second data.forEach sets "Median Log RF"; d3.median(undefined) throws
MedianThrows(row, logRFValues) ==
    TemplateString(Get(row, ChemicalName)) \notin DOMAIN logRFValues

WithMedian(row, logRFValues) ==
    Set(row, MedianLogRF, D3Median(logRFValues[TemplateString(Get(row, ChemicalName))]))

\* cleanData(rows): threw, or the rows it returns
CleanData(rows) ==
    LET first == FirstPass([rows |-> <<>>, logRFValues |-> <<>>], rows)
    IN IF \E i \in DOMAIN first.rows : MedianThrows(first.rows[i], first.logRFValues)
       THEN [threw |-> TRUE, rows |-> <<>>]
       ELSE [threw |-> FALSE,
             rows |-> [i \in DOMAIN first.rows |->
                          WithMedian(first.rows[i], first.logRFValues)]]

-----------------------------------------------------------------------------
(* getPointsData                                                           *)

\* d3.interpolateRgb(color0, color1)(i / (n - 1)) for i = 0 .. n - 1, a color
\* being <<red, green, blue>>
GenerateColors(color0, color1, n) ==
    [i \in 1..n |->
        [c \in 1..3 |-> color0[c] + ((i - 1) * (color1[c] - color0[c])) \div (n - 1)]]

\* Array.prototype.slice(from, to) for 0 <= from and to counted from the end
SliceFrom(s, from) == SubSeq(s, from + 1, Len(s))
SliceFromDropLast(s, from) == SubSeq(s, from + 1, Len(s) - 1)

colors ==
    GenerateColors(<<204, 0, 204>>, <<0, 144, 144>>, 4)
    \o SliceFrom(GenerateColors(<<0, 144, 144>>, <<255, 102, 0>>, 4), 1)
    \o SliceFromDropLast(GenerateColors(<<255, 153, 51>>, <<204, 0, 204>>, 2), 1)

\* mutant of Filtered: the "-" filter left out
FilteredPlusOnly(d, mode) ==
    mode = "+" /\ Includes(Get(d, ChemicalName).s, <<"(", "ESI-", ")">>)

\* the row is skipped by the filter on showMode
Filtered(d, mode) ==
    \/ mode = "+" /\ Includes(Get(d, ChemicalName).s, <<"(", "ESI-", ")">>)
    \/ mode = "-" /\ Includes(Get(d, ChemicalName).s, <<"(", "ESI+", ")">>)

\* d["Chemical Name"].includes(...) is a TypeError when the property is missing
FilterThrows(d, mode) == mode \in {"+", "-"} /\ Get(d, ChemicalName).t = "undefined"

\* key.split("log RF ")[1], for a key that starts with "log RF "
RECURSIVE UpToSeparator(_)
UpToSeparator(s) ==
    IF s = <<>> \/ StartsWith(s, LogRFPrefix) THEN <<>>
    ELSE <<Head(s)>> \o UpToSeparator(Tail(s))

SampleName(key) ==
    LET sampleName == UpToSeparator(SubSeq(key, Len(LogRFPrefix) + 1, Len(key)))
    IN IF EndsWith(sampleName, <<"_">>)
       THEN SubSeq(sampleName, 1, Len(sampleName) - 1)
       ELSE sampleName

\* the body of the inner forEach for one entry of the row d;
\* st is [chemName, i, pointsData]
PointEntry(st, d, key, value) ==
    IF ~StartsWith(key, LogRFPrefix) THEN st
    ELSE LET changed == Get(d, ChemicalName) # st.chemName
             i == IF changed THEN st.i + 1 ELSE st.i
             datum == [chemical |-> Get(d, ChemicalName),
                       logRF |-> value,
                       featureId |-> Get(d, FeatureID),
                       sampleName |-> SampleName(key),
                       mode |-> Get(d, IonizationMode),
                       retentionTime |-> Get(d, RetentionTime),
                       color |-> colors[(i % 7) + 1]]
         IN [chemName |-> IF changed THEN Get(d, ChemicalName) ELSE st.chemName,
             i |-> i,
             pointsData |-> Append(st.pointsData, datum)]

RECURSIVE PointEntries(_, _, _)
PointEntries(st, d, entries) ==
    IF entries = <<>> THEN st
    ELSE PointEntries(PointEntry(st, d, Head(entries).k, Head(entries).v), d,
                      Tail(entries))

\* the outer forEach
RECURSIVE PointRows(_, _, _)
PointRows(st, rows, mode) ==
    IF rows = <<>> THEN st
    ELSE IF Filtered(Head(rows), mode) THEN PointRows(st, Tail(rows), mode)
    ELSE PointRows(PointEntries(st, Head(rows), Head(rows)), Tail(rows), mode)

\* getPointsData(rows, nChemsPerPlot, mode): threw, or the points it returns.
\* data[0]["Chemical Name"] is a TypeError on an empty array.
GetPointsData(rows, mode) ==
    IF rows = <<>> \/ \E j \in DOMAIN rows : FilterThrows(rows[j], mode)
    THEN [threw |-> TRUE, pointsData |-> <<>>]
    ELSE [threw |-> FALSE,
          pointsData |-> PointRows([chemName |-> Get(rows[1], ChemicalName),
                                    i |-> 0,
                                    pointsData |-> <<>>], rows, mode).pointsData]

-----------------------------------------------------------------------------
(* data.sort((a, b) => a[column] - b[column])                              *)

\* the sign of a - b as Array.prototype.sort reads it (NaN counts as 0)
Compare(a, b) ==
    IF ~IsNumber(a) \/ ~IsNumber(b) THEN 0
    ELSE IF NumLess(a, b) THEN -1
    ELSE IF NumLess(b, a) THEN 1
    ELSE 0

\* the comparator is a consistent comparator for the values (ECMA-262,
\* Array.prototype.sort); if it is not, the sort order is implementation-defined
Consistent(values) ==
    \A a \in values, b \in values, c \in values :
        /\ (Compare(a, b) = 0) = (Compare(b, a) = 0)
        /\ (Compare(a, b) < 0) = (Compare(b, a) > 0)
        /\ Compare(a, b) = 0 /\ Compare(b, c) = 0 => Compare(a, c) = 0
        /\ Compare(a, b) < 0 /\ Compare(b, c) < 0 => Compare(a, c) < 0
        /\ Compare(a, b) > 0 /\ Compare(b, c) > 0 => Compare(a, c) > 0

\* x goes behind every row that does not compare greater than it
Insert(sorted, x, column) ==
    LET after == {j \in DOMAIN sorted : Compare(Get(sorted[j], column), Get(x, column)) > 0}
        at == IF after = {} THEN Len(sorted) + 1
              ELSE CHOOSE j \in after : \A k \in after : j <= k
    IN SubSeq(sorted, 1, at - 1) \o <<x>> \o SubSeq(sorted, at, Len(sorted))

RECURSIVE StableSort(_, _)
StableSort(rows, column) ==
    IF rows = <<>> THEN <<>>
    ELSE Insert(StableSort(SubSeq(rows, 1, Len(rows) - 1), column),
                rows[Len(rows)], column)

Reorderings(rows) ==
    {[i \in DOMAIN rows |-> rows[p[i]]] :
        p \in {q \in [DOMAIN rows -> DOMAIN rows] :
                 \A i \in DOMAIN rows, j \in DOMAIN rows : q[i] = q[j] => i = j}}

\* the orders data.sort may leave the rows in
SortOutcomes(rows, column) ==
    IF Consistent({Get(rows[i], column) : i \in DOMAIN rows})
    THEN {StableSort(rows, column)}
    ELSE Reorderings(rows)

\* the column makeStripPlot sorts by
SortColumn(by) == IF by = "rt" THEN RetentionTime ELSE MedianLogRF

-----------------------------------------------------------------------------
(* The spreadsheets the model reads: at most MaxRows of the rows of        *)
(* SampleRows, in the order SampleRows lists them.                         *)

MaxRows == 3

Cell(k, v) == [k |-> k, v |-> v]

RF(sample) == RFPrefix \o sample

Identity(id, name, mode, rt) ==
    <<Cell(FeatureID, Num(id)), Cell(ChemicalName, Str(<<name>>)),
      Cell(IonizationMode, Str(<<mode>>)), Cell(RetentionTime, Num(rt))>>

SampleRows ==
    << \* two samples, one named with a trailing underscore
      Identity(1, "A", "ESI+", 5) \o <<Cell(RF(<<"s1">>), Num(2)), Cell(RF(<<"s2", "_">>), Num(8))>>,
      \* the same chemical in negative mode
      Identity(2, "A", "ESI-", 3) \o <<Cell(RF(<<"s1">>), Num(2))>>,
      \* a column that is neither kept nor an RF column
      Identity(3, "B", "ESI+", 3) \o <<Cell(<<"Mass">>, Num(7)), Cell(RF(<<"s1">>), Num(4))>>,
      \* the RF column ahead of the identity columns
      <<Cell(RF(<<"s1">>), Num(1))>> \o Identity(4, "A", "ESI+", 1),
      \* no RF column
      Identity(5, "B", "ESI-", 1),
      \* a zero and a negative response factor
      Identity(6, "B", "ESI+", 2) \o <<Cell(RF(<<"s1">>), Num(0)), Cell(RF(<<"s2", "_">>), Num(-1))>>,
      \* the sheet has a column "log RF s1" of its own, behind "RF s1"
      Identity(7, "C", "ESI-", 4) \o <<Cell(RF(<<"s1">>), Num(8)), Cell(LogRFPrefix \o <<"s1">>, Num(3))>>,
      \* a response factor that is no number
      Identity(8, "C", "ESI+", 6) \o <<Cell(RF(<<"s1">>), Str(<<"n/a">>))>>,
      \* no "Chemical Name" column
      <<Cell(FeatureID, Num(9)), Cell(IonizationMode, Str(<<"ESI+">>)),
        Cell(RetentionTime, Num(2)), Cell(RF(<<"s1">>), Num(2))>>,
      \* a second feature of chemical A in positive mode
      Identity(10, "A", "ESI+", 1) \o <<Cell(RF(<<"s1">>), Num(1))>>,
      \* a sample whose name holds the text "log RF ": "RF xlog RF y_"
      Identity(11, "D", "ESI+", 7) \o <<Cell(RF(<<"x", "log ", "RF ", "y", "_">>), Num(16))>> >>

\* the rows of SampleRows at the indices in picked, in ascending order
Sheet(picked) ==
    [i \in 1..Cardinality(picked) |->
        SampleRows[CHOOSE x \in picked : Cardinality({y \in picked : y <= x}) = i]]

Sheets ==
    {Sheet(picked) : picked \in {p \in SUBSET DOMAIN SampleRows : Cardinality(p) <= MaxRows}}

-----------------------------------------------------------------------------
(* stripPlotsMain                                                          *)

\* the elements stripPlotsMain appends before the first makeStripPlot
Controls ==
    {"strip-plots-parent-grid-container", "sortButton", "pos", "neg", "helpButton",
     "svgGridContainer", "tooltip", "helpTooltip"}

modeButtonData == {[text |-> "+", id |-> "pos"], [text |-> "-", id |-> "neg"]}

Init ==
    /\ pc = "fetching"
    /\ jsonData = <<>>
    /\ cleaned = <<>>
    /\ data = <<>>
    /\ sortedBy = "undeclared"
    /\ showMode = "undeclared"
    /\ dom = {}
    /\ pointsData = <<>>
    /\ lastRender = "none"
    /\ sortClicks = "none"
    /\ modeClicked = "none"

\* readInterpretOutputXLSX resolves with the rows of Sheet1 (no rows when the
\* sheet is empty, and sheet_to_json gives [] for a sheet that is absent)
Load ==
    /\ pc = "fetching"
    /\ \E sheet \in Sheets :
          /\ jsonData' = sheet
          /\ data' = sheet
    /\ pc' = "loaded"
    /\ UNCHANGED <<cleaned, sortedBy, showMode, dom, pointsData, lastRender, sortClicks,
                   modeClicked>>

\* fetch, arrayBuffer or XLSX.read rejects: stripPlotsMain rejects at its await
LoadFails ==
    /\ pc = "fetching"
    /\ pc' = "fetchFailed"
    /\ UNCHANGED <<jsonData, cleaned, data, sortedBy, showMode, dom, pointsData,
                   lastRender, sortClicks, modeClicked>>

\* mutant of MakeStripPlot: every render runs the first pass of cleanData on
\* the rows again
MakeStripPlotCleaning(rows, by, mode) ==
    \E sorted \in SortOutcomes(FirstPass([rows |-> <<>>, logRFValues |-> <<>>], rows).rows,
                               SortColumn(by)) :
        LET points == GetPointsData(sorted, mode)
        IN /\ data' = sorted
           /\ IF points.threw
              THEN /\ dom' = Controls
                   /\ pointsData' = <<>>
                   /\ lastRender' = "threw"
              ELSE /\ dom' = Controls \cup {"svg0"}
                   /\ pointsData' = points.pointsData
                   /\ lastRender' = "ok"

\* makeStripPlot(rows, by, mode): the svg is removed, the rows are sorted in
\* place, and a new svg is appended unless getPointsData throws
MakeStripPlot(rows, by, mode) ==
    \E sorted \in SortOutcomes(rows, SortColumn(by)) :
        LET points == GetPointsData(sorted, mode)
        IN /\ data' = sorted
           /\ IF points.threw
              THEN /\ dom' = Controls
                   /\ pointsData' = <<>>
                   /\ lastRender' = "threw"
              ELSE /\ dom' = Controls \cup {"svg0"}
                   /\ pointsData' = points.pointsData
                   /\ lastRender' = "ok"

\* stripPlotsMain from the end of its await to its end
Main ==
    /\ pc = "loaded"
    /\ LET result == CleanData(data)
       IN IF result.threw
          THEN /\ pc' = "cleanFailed"
               /\ UNCHANGED <<cleaned, data, sortedBy, showMode, dom, pointsData,
                              lastRender>>
          ELSE /\ cleaned' = result.rows
               /\ sortedBy' = "meanRF"
               /\ showMode' = "+"
               /\ MakeStripPlot(result.rows, "meanRF", "+")
               /\ pc' = IF lastRender' = "threw" THEN "renderFailed" ELSE "done"
    /\ UNCHANGED <<jsonData, sortClicks, modeClicked>>

\* sortedBy = sortedBy === "rt" ? "ml" : "rt"
ToggleSort(by) == IF by = "rt" THEN "ml" ELSE "rt"

\* the click handler of #sortButton
SortClick ==
    /\ "sortButton" \in dom
    /\ sortedBy' = ToggleSort(sortedBy)
    /\ MakeStripPlot(data, sortedBy', showMode)
    /\ sortClicks' = IF sortClicks = "odd" THEN "even" ELSE "odd"
    /\ UNCHANGED <<pc, jsonData, cleaned, showMode, modeClicked>>

\* showMode as the click handler of a mode button sets it
ClickedMode(d) == IF d.text = "+/-" THEN "both" ELSE d.text

\* the click handler of the mode button d
ModeClick(d) ==
    /\ d.id \in dom
    /\ showMode' = ClickedMode(d)
    /\ MakeStripPlot(data, sortedBy, showMode')
    /\ modeClicked' = d.id
    /\ UNCHANGED <<pc, jsonData, cleaned, sortedBy, sortClicks>>

PosClick == \E d \in modeButtonData : d.id = "pos" /\ ModeClick(d)

NegClick == \E d \in modeButtonData : d.id = "neg" /\ ModeClick(d)

Next == Load \/ LoadFails \/ Main \/ SortClick \/ PosClick \/ NegClick

Spec == Init /\ [][Next]_vars

-----------------------------------------------------------------------------
(* Helpers of the properties                                               *)

\* cleanData has returned (stripPlotsMain went on to build the page)
Cleaned == pc \in {"done", "renderFailed"}

Modes == {"+", "-", "both"}

\* the values of the "log RF *" columns of a row, in column order
LogValues(row) ==
    LET logs == SelectSeq(row, LAMBDA c : StartsWith(c.k, LogRFPrefix))
    IN [j \in DOMAIN logs |-> logs[j].v]

\* the "log RF *" values of all rows whose "Chemical Name" is key
RECURSIVE LogValuesOfKey(_, _)
LogValuesOfKey(rows, key) ==
    IF rows = <<>> THEN <<>>
    ELSE (IF Get(Head(rows), ChemicalName) = key THEN LogValues(Head(rows)) ELSE <<>>)
         \o LogValuesOfKey(Tail(rows), key)

\* the rows the filter keeps
Retained(rows, mode) ==
    SelectSeq(rows, LAMBDA d :
        ~(\/ mode = "+" /\ Includes(Get(d, ChemicalName).s, <<"(", "ESI-", ")">>)
          \/ mode = "-" /\ Includes(Get(d, ChemicalName).s, <<"(", "ESI+", ")">>)))

\* the distinct chemical-identity keys of the rows, in order of first appearance
RECURSIVE DistinctKeys(_)
DistinctKeys(rows) ==
    IF rows = <<>> THEN <<>>
    ELSE LET before == DistinctKeys(SubSeq(rows, 1, Len(rows) - 1))
             key == Get(rows[Len(rows)], ChemicalName)
         IN IF \E j \in DOMAIN before : before[j] = key THEN before
            ELSE Append(before, key)

Ordinal(key, keys) == (CHOOSE j \in DOMAIN keys : keys[j] = key) - 1

\* the sheet is as the README's data file is: every row starts with the four
\* identity columns, then has at least one "RF " column holding a positive
\* number, and no column of the sheet is named "log RF ..."
RegularRow(row) ==
    /\ Len(row) > 4
    /\ {row[j].k : j \in 1..4} = columnsToKeep
    /\ \E j \in DOMAIN row : StartsWith(row[j].k, RFPrefix)
    /\ \A j \in DOMAIN row :
          /\ StartsWith(row[j].k, RFPrefix) => row[j].v.t = "num" /\ row[j].v.n > 0
          /\ ~StartsWith(row[j].k, LogRFPrefix)

Regular(sheet) == \A i \in DOMAIN sheet : RegularRow(sheet[i])

-----------------------------------------------------------------------------
(* C1: after cleanData, every cleaned row carries as "Median Log RF" the   *)
(* median of all "log RF *" values of all rows with its chemical-identity  *)
(* key (so rows with the same key carry the same median), whatever the     *)
(* order of the columns inside a row.  Stated for the sheets that have no  *)
(* "log RF ..." column of their own.                                       *)
C1_MedianPerKey ==
    Cleaned /\ (\A i \in DOMAIN jsonData : \A j \in DOMAIN jsonData[i] :
                   ~StartsWith(jsonData[i][j].k, LogRFPrefix)) =>
        \A i \in DOMAIN cleaned :
            Get(cleaned[i], MedianLogRF)
                = D3Median(LogValuesOfKey(cleaned, Get(cleaned[i], ChemicalName)))

(* C2: every rendered point has color palette[k mod 7], k being the        *)
(* zero-based position of the point's chemical-identity key among the      *)
(* distinct keys of the rows the filter retains, in traversal order.       *)
(* Stated for regular sheets.                                              *)
C2_OrdinalColor ==
    lastRender = "ok" /\ Regular(jsonData) =>
        \A p \in DOMAIN pointsData :
            pointsData[p].color
                = colors[(Ordinal(pointsData[p].chemical,
                                  DistinctKeys(Retained(data, showMode))) % 7) + 1]

(* C3: within one call of getPointsData, points with the same              *)
(* chemical-identity key have the same color.  Stated for regular sheets.  *)
C3_OneColorPerChemical ==
    lastRender = "ok" /\ Regular(jsonData) =>
        \A p \in DOMAIN pointsData, q \in DOMAIN pointsData :
            pointsData[p].chemical = pointsData[q].chemical
                => pointsData[p].color = pointsData[q].color

(* C4: after any sequence of clicks the rendered point list is the one     *)
(* obtained by sorting the rows as cleanData returned them by the active   *)
(* sort key and building the points with the active filter.  Stated for    *)
(* regular sheets.                                                         *)
C4_HistoryIndependent ==
    lastRender = "ok" /\ Regular(jsonData) =>
        \E sorted \in SortOutcomes(cleaned, SortColumn(sortedBy)) :
            pointsData = GetPointsData(sorted, showMode).pointsData

(* C5: getPointsData with filter "+" returns no point whose chemical key   *)
(* contains "(ESI-)", with "-" none whose key contains "(ESI+)", and with  *)
(* "both" it leaves out no row; so the rendered points satisfy the filter  *)
(* of the mode button clicked last ("+" before any click).                 *)
NoPointOf(points, mode) ==
    \A p \in DOMAIN points : ~Includes(points[p].chemical.s, <<"(", mode, ")">>)

C5_ModeFilter ==
    /\ Cleaned =>
         \A mode \in Modes :
            LET result == GetPointsData(data, mode)
            IN ~result.threw =>
                 /\ mode = "+" => NoPointOf(result.pointsData, "ESI-")
                 /\ mode = "-" => NoPointOf(result.pointsData, "ESI+")
                 /\ mode = "both" =>
                      \A i \in DOMAIN data :
                         LogValues(data[i]) # <<>> =>
                            \E p \in DOMAIN result.pointsData :
                               result.pointsData[p].featureId = Get(data[i], FeatureID)
    /\ lastRender = "ok" =>
         /\ modeClicked \in {"none", "pos"} => NoPointOf(pointsData, "ESI-")
         /\ modeClicked = "neg" => NoPointOf(pointsData, "ESI+")

\* the "-" button was clicked on a page whose data has rows of both modes, and
\* points are shown
C5_Witness ==
    /\ lastRender = "ok"
    /\ modeClicked = "neg"
    /\ pointsData # <<>>
    /\ \E i \in DOMAIN data : Includes(Get(data[i], ChemicalName).s, <<"(", "ESI+", ")">>)
    /\ \E i \in DOMAIN data : Includes(Get(data[i], ChemicalName).s, <<"(", "ESI-", ")">>)

(* C6: for every cleaned row sequence, the empty one included, and every   *)
(* mode filter, getPointsData returns exactly one point per (retained row, *)
(* "log RF *" column) pair, in row order then column order.                *)
RECURSIVE ExpectedPairs(_)
ExpectedPairs(rows) ==
    IF rows = <<>> THEN <<>>
    ELSE [j \in DOMAIN LogValues(Head(rows)) |->
             <<Get(Head(rows), FeatureID), LogValues(Head(rows))[j]>>]
         \o ExpectedPairs(Tail(rows))

C6_OnePointPerPair ==
    Cleaned =>
        \A mode \in Modes :
            LET result == GetPointsData(data, mode)
            IN /\ ~result.threw
               /\ [p \in DOMAIN result.pointsData |->
                      <<result.pointsData[p].featureId, result.pointsData[p].logRF>>]
                    = ExpectedPairs(Retained(data, mode))

(* C7: where cleanData returns, it returns as many rows as it was given,   *)
(* every column of a returned row is an identity column, a "log RF ..."    *)
(* column or "Median Log RF", and every input column "RF <sample>" has     *)
(* become a column "log RF <sample>", also when the raw row already has a  *)
(* column of that name.                                                    *)
C7_Columns ==
    Cleaned =>
        /\ Len(cleaned) = Len(jsonData)
        /\ \A i \in DOMAIN cleaned :
              /\ \A j \in DOMAIN cleaned[i] :
                    \/ cleaned[i][j].k \in columnsToKeep
                    \/ StartsWith(cleaned[i][j].k, LogRFPrefix)
                    \/ cleaned[i][j].k = MedianLogRF
              /\ \A j \in DOMAIN jsonData[i] :
                    StartsWith(jsonData[i][j].k, RFPrefix) =>
                       HasKey(cleaned[i], <<"log ">> \o jsonData[i][j].k)

(* C8: the plot is first ordered by median log RF, every click on the sort *)
(* button switches between retention time and median log RF, the first     *)
(* click giving retention time, a mode click changes nothing of it, and    *)
(* after every render the rows are non-decreasing in the active sort key.  *)
LessOrEqual(a, b) == IsNumber(a) /\ IsNumber(b) /\ ~NumLess(b, a)

C8_SortOrder ==
    /\ Cleaned =>
         sortedBy = CASE sortClicks = "none" -> "meanRF"
                      [] sortClicks = "odd" -> "rt"
                      [] sortClicks = "even" -> "ml"
    /\ lastRender # "none" =>
         \A i \in 1..(Len(data) - 1) :
            LessOrEqual(Get(data[i], SortColumn(sortedBy)),
                        Get(data[i + 1], SortColumn(sortedBy)))

(* C9: when the file cannot be fetched, the sheet is absent or empty, or a *)
(* required column is missing, stripPlotsMain fails with nothing added to  *)
(* the page.                                                               *)
C9_NoPartialRendering ==
    pc \in {"fetchFailed", "cleanFailed", "renderFailed"} => dom = {}

(* C10 as the specification states it: cleanData fails when an "RF " cell  *)
(* is non-numeric, zero or negative, so it returns no rows for a sheet     *)
(* that has such a cell.                                                   *)
BadCell(c) == StartsWith(c.k, RFPrefix) /\ ~(c.v.t = "num" /\ c.v.n > 0)

Repaired(sheet) ==
    [i \in DOMAIN sheet |->
        [j \in DOMAIN sheet[i] |->
            IF BadCell(sheet[i][j]) THEN Cell(sheet[i][j].k, Num(1)) ELSE sheet[i][j]]]

WithoutPrefix(key) == SubSeq(key, Len(LogRFPrefix) + 1, Len(key))

WithoutUnderscore(name) ==
    IF name # <<>> /\ name[Len(name)] = "_" THEN SubSeq(name, 1, Len(name) - 1) ELSE name

RECURSIVE ExpectedSampleNames(_)
ExpectedSampleNames(rows) ==
    IF rows = <<>> THEN <<>>
    ELSE LET logs == SelectSeq(Head(rows), LAMBDA c : StartsWith(c.k, LogRFPrefix))
         IN [j \in DOMAIN logs |-> WithoutUnderscore(WithoutPrefix(logs[j].k))]
            \o ExpectedSampleNames(Tail(rows))

C11_SampleName ==
    lastRender = "ok" /\ Regular(jsonData) =>
        [p \in DOMAIN pointsData |-> pointsData[p].sampleName]
            = ExpectedSampleNames(Retained(data, showMode))

(* C12: a toggle does not alter the cleaned data.  After any sequence of   *)
(* sort and mode clicks the array holds exactly the rows cleanData         *)
(* returned, field for field, in some order; and the rows cleanData        *)
(* returned are set once, by stripPlotsMain between the end of the load    *)
(* and the first render, and by no click.                                  *)
Count(rows, row) == Cardinality({i \in DOMAIN rows : rows[i] = row})

SameRows(a, b) ==
    /\ Len(a) = Len(b)
    /\ \A i \in DOMAIN a : Count(a, a[i]) = Count(b, a[i])

\* the second conjunct: after a render the array is in the order the sort left
\* it in, getPointsData has not reordered it
C12_RowsKept ==
    /\ Cleaned => SameRows(data, cleaned)
    /\ lastRender # "none" => data \in SortOutcomes(data, SortColumn(sortedBy))

C12_CleanedOnce ==
    [][cleaned' # cleaned => pc = "loaded" /\ lastRender = "none" /\ Cleaned']_vars

C12_CleanedDataUnaltered == []C12_RowsKept /\ C12_CleanedOnce

\* both kinds of button have been clicked and the rows stand in another order
\* than cleanData returned them in
C12_Witness ==
    /\ lastRender = "ok"
    /\ sortClicks = "even"
    /\ modeClicked = "neg"
    /\ data # cleaned
    /\ pointsData # <<>>

====
